---- MODULE Spec2Model ----
(***************************************************************************)
(* A model of rename.py (VoxelDavid/date-renamer): the date resolver       *)
(* (Photo.get_earliest_date), the rename engine (File.rename,              *)
(* File.get_alternate_name) and the batch loop of main.                    *)
(*                                                                         *)
(* File names are sequences of tokens: the token "." and maximal runs of   *)
(* characters other than ".".  Two names are the same string exactly when  *)
(* their token sequences are equal, and os.path.splitext, which only looks *)
(* for dots, is computed on the tokens as Python computes it on the        *)
(* characters.                                                             *)
(*                                                                         *)
(* Dates are whole seconds after 2020-01-01 00:00:00, below one minute.    *)
(***************************************************************************)
EXTENDS Integers, Sequences, FiniteSets, TLC

VARIABLES
    platform,     \* the os the interpreter runs on: decides os.rename on a taken name
    date_format,  \* args["--format"], the same for every file of a run
    fs,           \* the directory: file -> its entry name, or Gone
    ftype,        \* file -> what imghdr.what answers for its content
    exif,         \* file -> what piexif.load answers: [Exif |-> tag id -> raw value]
    ctime,        \* file -> os.path.getctime
    mtime,        \* file -> os.path.getmtime
    pc,           \* where main is: "start", "loop", "exit" (returned), "raised"
    todo,         \* entries of the os.listdir snapshot not yet iterated over
    run,          \* which run of main this is, and the directory it started from
    photo,        \* the fields of the Photo object of the last iteration
    stdout,       \* what this run printed: <<old name, new name>> per notice
    last          \* what the last iteration did (history, for the properties)

vars == <<platform, date_format, fs, ftype, exif, ctime, mtime,
          pc, todo, run, photo, stdout, last>>

----------------------------------------------------------------------------
(* Bounds *)

NFiles == 2
MaxDate == 2
MaxRuns == 2

(* Program constants *)

DateTimeOriginalTag == 36867

DefaultFormat == "%Y-%m-%d %H.%M.%S"
CompactFormat == "%Y%m%d-%H%M%S"
ExifFormat == "%Y:%m:%d %H:%M:%S"

Dot == "."
Dir == "photos"
Gone == << >>
None == << >>
Some(d) == <<d>>

Dates == 0..MaxDate
BatchDates == 0..1

----------------------------------------------------------------------------
(* Strings and paths *)

\* Concatenation of two strings given as token sequences.
Cat(a, b) ==
    IF a = << >> THEN b
    ELSE IF b = << >> THEN a
    ELSE IF a[Len(a)] # Dot /\ b[1] # Dot
         THEN SubSeq(a, 1, Len(a) - 1) \o <<a[Len(a)] \o b[1]>> \o Tail(b)
         ELSE a \o b

\* "%02d" % d
TwoDigits(d) == IF d < 10 THEN "0" \o ToString(d) ELSE ToString(d)

join(dir, name) == <<dir, name>>
basename(path) == path[2]
dirname(path) == path[1]

\* os.path.splitext: the extension starts at the last dot, unless only dots
\* precede it.
splitext(p) ==
    LET dots == {i \in 1..Len(p) : p[i] = Dot}
    IN  IF dots = {}
        THEN <<p, << >> >>
        ELSE LET i == CHOOSE k \in dots : \A j \in dots : j <= k
             IN  IF \E j \in 1..(i - 1) : p[j] # Dot
                 THEN <<SubSeq(p, 1, i - 1), SubSeq(p, i, Len(p))>>
                 ELSE <<p, << >> >>

\* datetime.strftime for the two patterns of the model.
strftime(d, fmt) ==
    CASE fmt = DefaultFormat -> <<"2020-01-01 00", Dot, "00", Dot, TwoDigits(d)>>
      [] fmt = CompactFormat -> <<"20200101-0000" \o TwoDigits(d)>>
      [] fmt = ExifFormat    -> <<"2020:01:01 00:00:" \o TwoDigits(d)>>

\* datetime.strptime: the date whose rendering under fmt is the string.
strptime(s, fmt) == CHOOSE d \in 0..59 : strftime(d, fmt) = s

----------------------------------------------------------------------------
(* The filesystem *)

Files(dir_fs) == DOMAIN dir_fs

\* os.listdir: the names the directory holds.
listdir(dir_fs) == {dir_fs[f] : f \in Files(dir_fs)} \ {Gone}

\* os.path.exists / os.path.isfile of a path of the directory.
exists(dir_fs, path) == dirname(path) = Dir /\ basename(path) \in listdir(dir_fs)

\* The file a path names.
FileAt(dir_fs, path) == CHOOSE f \in Files(dir_fs) : dir_fs[f] = basename(path)

\* Mutant of OsRename: a rename of a file onto its own name counts as a name
\* that is taken.
OsRenameTakenSelf(dir_fs, plat, src, dst, fails) ==
    IF fails THEN [fs |-> dir_fs, exc |-> "OSError"]
    ELSE IF ~exists(dir_fs, src) THEN [fs |-> dir_fs, exc |-> "FileNotFoundError"]
    ELSE IF exists(dir_fs, dst)
         THEN IF plat = "nt"
              THEN [fs |-> dir_fs, exc |-> "FileExistsError"]
              ELSE [fs |-> [f \in Files(dir_fs) |->
                               IF f = FileAt(dir_fs, src) THEN basename(dst)
                               ELSE IF dir_fs[f] = basename(dst) THEN Gone
                               ELSE dir_fs[f]],
                    exc |-> "none"]
    ELSE [fs |-> [dir_fs EXCEPT ![FileAt(dir_fs, src)] = basename(dst)],
          exc |-> "none"]

\* os.rename(src, dst).  fails: the call fails for a reason of its own
\* (PermissionError and the like).  A rename of a file onto its own name
\* succeeds and changes nothing.  A name taken by another file: Windows raises
\* FileExistsError, elsewhere the file that held the name is replaced silently
\* (the documented behaviour of os.rename).
OsRename(dir_fs, plat, src, dst, fails) ==
    IF fails THEN [fs |-> dir_fs, exc |-> "OSError"]
    ELSE IF ~exists(dir_fs, src) THEN [fs |-> dir_fs, exc |-> "FileNotFoundError"]
    ELSE IF dst = src THEN [fs |-> dir_fs, exc |-> "none"]
    ELSE IF exists(dir_fs, dst)
         THEN IF plat = "nt"
              THEN [fs |-> dir_fs, exc |-> "FileExistsError"]
              ELSE [fs |-> [f \in Files(dir_fs) |->
                               IF f = FileAt(dir_fs, src) THEN basename(dst)
                               ELSE IF dir_fs[f] = basename(dst) THEN Gone
                               ELSE dir_fs[f]],
                    exc |-> "none"]
    ELSE [fs |-> [dir_fs EXCEPT ![FileAt(dir_fs, src)] = basename(dst)],
          exc |-> "none"]

----------------------------------------------------------------------------
(* class File *)

\* File.__init__
File(path) == [path |-> path, name |-> basename(path), dir |-> dirname(path)]

\* File.has_sibling
has_sibling(dir_fs, self, file) == exists(dir_fs, join(self.dir, file))

\* The loop of File.get_alternate_name, from existing_copies on.
RECURSIVE alternate_from(_, _, _, _, _)
alternate_from(dir_fs, self, name, ext, existing_copies) ==
    LET new_name == Cat(Cat(name, <<" (" \o ToString(existing_copies) \o ")">>), ext)
    IN  IF ~has_sibling(dir_fs, self, new_name)
        THEN new_name
        ELSE alternate_from(dir_fs, self, name, ext, existing_copies + 1)

\* File.get_alternate_name
get_alternate_name(dir_fs, self, file) ==
    LET parts == splitext(file)
    IN  alternate_from(dir_fs, self, parts[1], parts[2], 1)

\* File.rename.  fault: which os.rename call of this rename fails for a
\* reason of its own ("none", "first", "second").  The finally block runs on
\* every way out: it prints the notice and assigns self.path.
rename(dir_fs, plat, self, target, fault) ==
    LET extension == splitext(self.name)[2]
        new_name  == Cat(target, extension)
        new_path  == join(self.dir, new_name)
        first     == OsRename(dir_fs, plat, self.path, new_path, fault = "first")
    IN  IF first.exc = "FileExistsError"
        THEN LET alt_name == get_alternate_name(dir_fs, self, new_name)
                 alt_path == join(self.dir, alt_name)
                 second   == OsRename(dir_fs, plat, self.path, alt_path,
                                      fault = "second")
             IN  [fs    |-> second.fs,
                  exc   |-> second.exc,
                  out   |-> <<self.name, alt_name>>,
                  self  |-> [self EXCEPT !.path = alt_path],
                  calls |-> 2]
        ELSE [fs    |-> first.fs,
              exc   |-> first.exc,
              out   |-> <<self.name, new_name>>,
              self  |-> [self EXCEPT !.path = new_path],
              calls |-> 1]

----------------------------------------------------------------------------
(* class DateTimeOriginal, class Photo *)

\* What piexif.load answers: the Exif IFD with or without the tag.
NoTags == [Exif |-> << >>]
WithTag(d) == [Exif |-> (DateTimeOriginalTag :> strftime(d, ExifFormat))]

\* DateTimeOriginal.get_date
get_date(exif_data) ==
    IF DateTimeOriginalTag \in DOMAIN exif_data.Exif
    THEN Some(strptime(exif_data.Exif[DateTimeOriginalTag], ExifFormat))
    ELSE None

\* Mutant of has_exif_data: every image type counts as metadata-bearing.
has_exif_data_any(file_type) == file_type # "none"

\* Photo.has_exif_data
has_exif_data(file_type) == file_type = "jpeg" \/ file_type = "tiff"

\* Photo.get_date_taken, of the file the photo's path names
get_date_taken(f) ==
    IF has_exif_data(ftype[f]) THEN get_date(exif[f]) ELSE None

\* File.get_date_created, File.get_date_modified
get_date_created(f) == ctime[f]
get_date_modified(f) == mtime[f]

\* The date Photo.get_earliest_date picks, before it is formatted.
earliest_date(date_taken, date_created, date_modified) ==
    IF date_taken # None /\ date_taken[1] < date_created
    THEN date_taken[1]
    ELSE IF date_created < date_modified
    THEN date_created
    ELSE date_modified

\* Photo.get_earliest_date
get_earliest_date(f) ==
    strftime(earliest_date(get_date_taken(f), get_date_created(f),
                           get_date_modified(f)),
             date_format)

----------------------------------------------------------------------------
(* main *)

\* is_image
is_image(dir_fs, path) ==
    exists(dir_fs, path) /\ ftype[FileAt(dir_fs, path)] # "none"

\* Mutant of after_rename: main catches the exception and goes on.
after_rename_caught(exc) == "loop"

\* main has no handler: an exception of photo.rename leaves both loops.
after_rename(exc) == IF exc = "none" THEN "loop" ELSE "raised"

NoPhoto == [path |-> << >>, name |-> << >>, dir |-> ""]
NoStep == [kind |-> "none"]

\* The program is started on the directory: for the first time, or again once
\* an earlier run has gone through its whole listing.  (A run that ended in a
\* traceback, pc = "raised", is the end of the model's behaviour.)
Start ==
    /\ pc \in {"start", "exit"}
    /\ run.n < MaxRuns
    /\ pc' = "loop"
    /\ todo' = listdir(fs)
    /\ run' = [n |-> run.n + 1, start_fs |-> fs]
    /\ photo' = NoPhoto
    /\ stdout' = << >>
    /\ last' = NoStep
    /\ UNCHANGED <<platform, date_format, fs, ftype, exif, ctime, mtime>>

\* One iteration of "for file in os.listdir(path)".
Iterate(file, fault) ==
    /\ pc = "loop"
    /\ file \in todo
    /\ todo' = todo \ {file}
    /\ LET file_path == join(Dir, file)
       IN  IF is_image(fs, file_path)
           THEN LET f      == FileAt(fs, file_path)
                    self   == File(file_path)
                    target == get_earliest_date(f)
                    r      == rename(fs, platform, self, target, fault)
                IN  /\ fault = "second" => r.calls = 2
                    /\ fs' = r.fs
                    /\ photo' = r.self
                    /\ stdout' = Append(stdout, r.out)
                    /\ pc' = after_rename(r.exc)
                    /\ last' = [kind |-> "rename", f |-> f, name |-> file,
                                target |-> target, before |-> fs,
                                printed |-> Len(stdout), exc |-> r.exc,
                                calls |-> r.calls]
           ELSE /\ fault = "none"
                /\ last' = [kind |-> "skip", name |-> file]
                /\ UNCHANGED <<fs, photo, stdout, pc>>
    /\ UNCHANGED <<platform, date_format, ftype, exif, ctime, mtime, run>>

\* The listing is exhausted: main returns.
Return ==
    /\ pc = "loop"
    /\ todo = {}
    /\ pc' = "exit"
    /\ UNCHANGED <<platform, date_format, fs, ftype, exif, ctime, mtime,
                   todo, run, photo, stdout, last>>

Faults == {"none", "first", "second"}

Next ==
    \/ Start
    \/ \E file \in todo, fault \in Faults : Iterate(file, fault)
    \/ Return

----------------------------------------------------------------------------
(* Initial states *)

Platforms == {"nt", "posix"}
Exts == {<< >>, <<Dot, "jpg">>}

\* Every combination of file type, tag and the two filesystem dates.
AllShots ==
    [ftype : {"jpeg", "tiff", "png", "none"},
     exif  : {NoTags} \cup {WithTag(d) : d \in Dates},
     ctime : Dates,
     mtime : Dates]

\* The files of a batch: photographs with the tag (taken a second before they
\* were copied) and pictures without (saved a second after they were made).
BatchShots ==
    {[ftype |-> "jpeg", exif |-> WithTag(d), ctime |-> d + 1, mtime |-> d + 1]
        : d \in BatchDates}
    \cup
    {[ftype |-> "png", exif |-> NoTags, ctime |-> d, mtime |-> d + 1]
        : d \in BatchDates}

InitWith(F, Shots, Formats) ==
    /\ platform \in Platforms
    /\ date_format \in Formats
    /\ \E e \in [F -> Exts] :
          fs = [f \in F |-> Cat(<<"IMG_" \o ToString(f)>>, e[f])]
    /\ \E s \in [F -> Shots] :
          /\ ftype = [f \in F |-> s[f].ftype]
          /\ exif  = [f \in F |-> s[f].exif]
          /\ ctime = [f \in F |-> s[f].ctime]
          /\ mtime = [f \in F |-> s[f].mtime]
    /\ pc = "start"
    /\ todo = {}
    /\ run = [n |-> 0, start_fs |-> << >>]
    /\ photo = NoPhoto
    /\ stdout = << >>
    /\ last = NoStep

\* A batch over a directory of NFiles images.
Init == InitWith(1..NFiles, BatchShots, {DefaultFormat, CompactFormat})

Spec == Init /\ [][Next]_vars

\* One file, every combination of its type and dates.
InitDates == InitWith({1}, AllShots, {DefaultFormat, CompactFormat})

SpecDates == InitDates /\ [][Next]_vars

----------------------------------------------------------------------------
(* What the properties read off the last iteration *)

Renamed == last.kind = "rename"
RenamedOk == Renamed /\ last.exc = "none"

\* The extension of the file before the rename, and the name asked for.
OldExt == splitext(last.name)[2]
Wanted == Cat(last.target, OldExt)

\* "<target base name> (k)<original extension>"
Suffixed(k) == Cat(Cat(last.target, <<" (" \o ToString(k) \o ")">>), OldExt)

\* Counters worth considering: one more than there are files.
Counters == 1..(Cardinality(DOMAIN fs) + 1)

\* The wanted name was held by another file when the rename began.
WantedTaken == \E g \in DOMAIN fs : g # last.f /\ last.before[g] = Wanted

\* Date taken is available for the file of the last iteration.
TakenAvailable ==
    /\ ftype[last.f] \in {"jpeg", "tiff"}
    /\ DateTimeOriginalTag \in DOMAIN exif[last.f].Exif

Taken == strptime(exif[last.f].Exif[DateTimeOriginalTag], ExifFormat)

----------------------------------------------------------------------------
(* C1: Photo.get_earliest_date returns date taken when it is available      *)
(* (type jpeg or tiff, tag 36867 present) and strictly earlier than         *)
(* creation time; otherwise creation time when that is strictly earlier     *)
(* than modification time; otherwise modification time.                     *)
C1_ResolutionPolicy ==
    Renamed =>
        LET c == ctime[last.f]
            m == mtime[last.f]
            useTaken == TakenAvailable /\ Taken < c
        IN  /\ useTaken => last.target = strftime(Taken, date_format)
            /\ (~useTaken /\ c < m) => last.target = strftime(c, date_format)
            /\ (~useTaken /\ c >= m) => last.target = strftime(m, date_format)

\* A png that carries the tag, earlier than both filesystem dates: the tag is
\* not read and creation time, the earlier of the two, is the answer.
C1_Witness ==
    /\ Renamed
    /\ ftype[last.f] = "png"
    /\ DateTimeOriginalTag \in DOMAIN exif[last.f].Exif
    /\ Taken < ctime[last.f]
    /\ ctime[last.f] < mtime[last.f]
    /\ last.target = strftime(ctime[last.f], date_format)

(* C4: the date Photo.get_earliest_date returns is the earliest of the      *)
(* file's candidates: not later than creation time, than modification time, *)
(* or than date taken when that is available.                               *)
C4_EarliestOfCandidates ==
    RenamedOk =>
        LET d == strptime(last.target, date_format)
        IN  /\ d <= ctime[last.f]
            /\ d <= mtime[last.f]
            /\ TakenAvailable => d <= Taken

----------------------------------------------------------------------------
(* C2: when the wanted name is held by another file, File.rename moves the  *)
(* file to "<target base name> (k)<ext>", k the smallest counter >= 1 whose *)
(* name is unused in the directory at that moment.                          *)
C2_SmallestFreeCounter ==
    (RenamedOk /\ WantedTaken) =>
        \E k \in Counters :
            /\ Suffixed(k) \notin listdir(last.before)
            /\ \A j \in 1..(k - 1) : Suffixed(j) \in listdir(last.before)
            /\ fs[last.f] = Suffixed(k)

(* C3: no rename replaces an existing file: the directory holds as many     *)
(* files as before the run and every original file is still there under     *)
(* some name.                                                               *)
C3_NoFileReplaced ==
    /\ \A f \in DOMAIN fs : fs[f] # Gone
    /\ \A f, g \in DOMAIN fs : f # g => fs[f] # fs[g]

(* C5, as claimed: a failure of one rename aborts only that file, the run   *)
(* always goes through its whole listing.                                   *)
C5_RunProcessesWholeListing ==
    (pc \in {"exit", "raised"}) => todo = {}

(* C5, amended: a failure of the filesystem rename leaves main: the run     *)
(* ends there and the entries listed after the failed file stay             *)
(* unprocessed.                                                             *)
C5_FailureEndsTheRun ==
    (Renamed /\ last.exc # "none") =>
        /\ pc = "raised"
        /\ ~ENABLED (\E file \in todo, fault \in Faults : Iterate(file, fault))

C5_Witness ==
    /\ Renamed
    /\ last.exc = "OSError"
    /\ pc = "raised"
    /\ todo # {}

(* C6: after a successful File.rename the three path fields are refreshed:  *)
(* path is the final path, name its base name, dir its directory.           *)
C6_FieldsRefreshed ==
    RenamedOk =>
        /\ photo.path = join(Dir, fs[last.f])
        /\ photo.name = basename(photo.path)
        /\ photo.dir = dirname(photo.path)

(* C7: File.rename keeps the extension: the final name is                   *)
(* "<target base name><ext>" or "<target base name> (k)<ext>".              *)
C7_ExtensionPreserved ==
    RenamedOk =>
        \/ fs[last.f] = Wanted
        \/ \E k \in Counters : fs[last.f] = Suffixed(k)

(* C8, as claimed: renaming a file to its current base name is a no-op: the *)
(* file keeps its name, no other file changes, the in-memory path is        *)
(* unchanged and no notice is printed.                                      *)
C8_SelfRenameSilent ==
    (RenamedOk /\ last.target = splitext(last.name)[1]) =>
        /\ fs = last.before
        /\ photo.path = join(Dir, last.name)
        /\ Len(stdout) = last.printed

(* C8, amended: renaming a file to its current base name (its name without  *)
(* the extension os.path.splitext finds) leaves the directory and the       *)
(* in-memory path as they were, and prints the notice                       *)
(* "<name>" renamed to "<name>".                                            *)
C8_SelfRenameKeepsName ==
    (Renamed /\ last.target = splitext(last.name)[1]) =>
        /\ fs = last.before
        /\ fs[last.f] = last.name
        /\ photo.path = join(Dir, last.name)
        /\ stdout = Append(SubSeq(stdout, 1, last.printed),
                           <<last.name, last.name>>)

C8_Witness ==
    /\ RenamedOk
    /\ last.target = splitext(last.name)[1]
    /\ \E g \in DOMAIN fs : g # last.f /\ fs[g] # Gone
    /\ stdout[Len(stdout)] = <<last.name, last.name>>

(* C9: when the filesystem rename fails, no "renamed to" notice is printed  *)
(* and File.path still names the place where the file is.                   *)
C9_FailureHasNoEffect ==
    (Renamed /\ last.exc = "OSError") =>
        /\ Len(stdout) = last.printed
        /\ photo.path = join(Dir, fs[last.f])

(* C10: a run over a directory that an earlier run went through changes no  *)
(* file name.                                                               *)
C10_SecondRunFixedPoint ==
    run.n >= 2 => fs = run.start_fs

====
